---- MODULE Spec2Model ----
(***************************************************************************)
(* Restaurant ordering workflow: the order store (orders, order_items,     *)
(* table_tokens, menu_items of the Supabase schema), the Supabase service  *)
(* functions that read and write it, the order-create gateway, and the     *)
(* customer ordering page with its API service.                            *)
(*                                                                         *)
(* Time is a logical clock `now`; one tick stands for an arbitrary span.   *)
(* Order ids stand for the uuids of gen_random_uuid(); an order item id    *)
(* is the pair <<order id, position>>.                                     *)
(***************************************************************************)
EXTENDS Integers, Sequences, FiniteSets, TLC

VARIABLES
  now,          \* the clock read by now() and new Date()
  orders,       \* table orders: order_id -> row
  order_items,  \* table order_items: order_item_id -> row
  gw,           \* the latest exchange, when it was a gateway request
  tokenCheck,   \* the latest exchange, when it was a validateToken call
  submitted,    \* history: order id -> the request it was created from
  touched,      \* history: orders a staff update or the payment flow wrote to
  calls,        \* staff client -> its status-update call (sent, or returned)
  raced,        \* history: both staff calls were in flight on one preparing item
  pagePc,       \* OrderingPage: where its mount effect and menu load stand
  tableId,      \* OrderingPage state, as are the eight below
  token,
  validatingToken,
  loading,
  error,
  menuItems,
  cart,
  submitting,
  orderSuccess,
  alert,        \* the last message the page put up with alert()
  api,          \* a call of an API service function, as far as it has run
  batch,        \* the latest served marking handled by the order-served webhook
  sql,          \* the latest INSERT sent to the database as such, and its outcome
  fetch,        \* createOrder's fetchWithRetry: idle, attempting or sleeping
  callOrders,   \* history: the orders the latest createOrder call has created
  lookup,       \* the latest getOrderByTable call and what came of it
  observers     \* dashboard -> its subscription to the change notifier

staffVars == <<calls, raced>>
pageVars ==
  <<pagePc, tableId, token, validatingToken, loading, error, menuItems, cart,
    submitting, orderSuccess, alert, fetch, callOrders>>
apiVars == <<api, batch, sql, lookup>>
vars ==
  <<now, orders, order_items, gw, tokenCheck, submitted, touched, calls, raced,
    pagePc, tableId, token, validatingToken, loading, error, menuItems, cart,
    submitting, orderSuccess, alert, fetch, callOrders, api, batch, sql,
    lookup, observers>>

----------------------------------------------------------------------------
(* Bounds of the exploration *)

MaxOrders == 2
MaxFloorOrders == 1
MaxItems == 2
MaxTime == 2
MaxCartQty == 1
MaxEvents == 3

(* Program constants *)

MinQty == 1
MaxQty == 10
SeedTokenLifetime == 2

OrderIds == 1..MaxOrders
OrderItemIds == OrderIds \X (1..MaxItems)

----------------------------------------------------------------------------
(* Schema *)

ItemStatuses == {"pending", "preparing", "ready", "served"}

OrderStatuses ==
  {"pending", "in_kitchen", "preparing", "ready", "served", "closed", "paid"}

\* Values a caller may pass as `status: string`; "cancelled" is outside both
\* CHECK lists.
StatusInputs == OrderStatuses \cup {"cancelled"}

ItemStatusInputs == ItemStatuses \cup {"cancelled"}

orders_status_default_other == "in_kitchen"
orders_status_default == "pending"

order_items_status_default_other == "preparing"
order_items_status_default == "pending"

menu_items ==
  [m \in {"MENU001", "MENU002"} |->
     IF m = "MENU001"
     THEN [name |-> "Masala Dosa", price_cents |-> 6000, available |-> TRUE]
     ELSE [name |-> "Idly", price_cents |-> 3000, available |-> TRUE]]

table_tokens ==
  [t \in {"T1", "T2"} |->
     IF t = "T1"
     THEN [token |-> "ABC123XYZ789", expires_at |-> SeedTokenLifetime]
     ELSE [token |-> "DEF456UVW012", expires_at |-> SeedTokenLifetime]]

orders_check(row) == row.status \in OrderStatuses

\* The CHECK of menu_items.
menu_items_check(row) == row.price_cents >= 0

\* price_cents of the ten seeded menu items, MENU001 to MENU010.
menu_items_seed_price_cents ==
  <<6000, 3000, 5000, 4500, 25000, 28000, 22000, 8000, 6000, 3500>>

\* The CHECK of order_items in the earlier schema: on status alone.
order_items_check_earlier(row) == row.status \in ItemStatuses

order_items_check(row) ==
  /\ row.qty > 0
  /\ row.price_cents >= 0
  /\ row.status \in ItemStatuses

\* INSERT INTO orders (table_id): the other columns take their defaults.
orders_insert(table_id) ==
  [table_id |-> table_id, status |-> orders_status_default,
   created_at |-> now, updated_at |-> now]

\* INSERT INTO order_items (order_id, menu_item_id, name, qty, price_cents).
order_items_insert(order_id, menu_item_id, name, qty, price_cents) ==
  [order_id |-> order_id, menu_item_id |-> menu_item_id, name |-> name,
   qty |-> qty, price_cents |-> price_cents,
   status |-> order_items_status_default,
   created_at |-> now, updated_at |-> now]

\* A plausible slip: the trigger stamps the wrong column.
update_created_at_column(row) == [row EXCEPT !.created_at = now]

\* BEFORE UPDATE ... FOR EACH ROW trigger.
update_updated_at_column(row) == [row EXCEPT !.updated_at = now]

ItemsOf(rows, o) == {i \in DOMAIN rows : rows[i].order_id = o}

----------------------------------------------------------------------------
(* Change Notifier: Postgres changes of orders and order_items, sent to the *)
(* dashboards that subscribed with subscribeToOrderUpdates                  *)

Observers == {"kitchen", "waiter"}

NotSubscribed ==
  [pc |-> "idle", listeners |-> {}, queue |-> <<>>, received |-> <<>>,
   sent |-> 0, since |-> 0]

\* The listeners with `event: 'UPDATE'` in place of '*'.
subscribeToOrderUpdatesOnUpdate ==
  {[event |-> "UPDATE", schema |-> "public", table |-> "orders"],
   [event |-> "UPDATE", schema |-> "public", table |-> "order_items"]}

\* The two .on('postgres_changes', filter, callback) of channel
\* 'order-updates'; both hand the change to the one callback.
subscribeToOrderUpdates ==
  {[event |-> "*", schema |-> "public", table |-> "orders"],
   [event |-> "*", schema |-> "public", table |-> "order_items"]}

Matches(listener, ev) ==
  /\ listener.schema = "public"
  /\ listener.table = ev.table
  /\ listener.event \in {"*", ev.kind}

\* The rows of a table that a step has inserted or rewritten, as change
\* events with the new row values. No operation of the program deletes.
Changes(before, after, table) ==
  {[table |-> table,
    kind |-> IF i \in DOMAIN before THEN "UPDATE" ELSE "INSERT",
    id |-> IF table = "orders" THEN <<i>> ELSE i,
    new |-> after[i]] :
     i \in {j \in DOMAIN after : j \notin DOMAIN before \/ after[j] # before[j]}}

\* The events of one commit in some one order.
SeqOf(events) ==
  CHOOSE seq \in [1..Cardinality(events) -> events] :
    \A j, k \in 1..Cardinality(events) : seq[j] = seq[k] => j = k

\* Every observer gets the events its listeners match at the end of its
\* queue, numbered as they are sent to it; nothing waits for an observer.
Broadcast(obs, events) ==
  [o \in Observers |->
     IF obs[o].listeners = {}
     THEN obs[o]
     ELSE LET mine == SelectSeq(events,
                                LAMBDA ev : \E l \in obs[o].listeners :
                                              Matches(l, ev))
          IN [obs[o] EXCEPT
                !.queue = @ \o [k \in 1..Len(mine) |->
                                  [table |-> mine[k].table,
                                   kind |-> mine[k].kind,
                                   id |-> mine[k].id,
                                   new |-> mine[k].new,
                                   n |-> obs[o].sent + k]],
                !.sent = @ + Len(mine)]]

\* What the commit of a step sends out: the changes of orders, then those of
\* order_items.
Publish ==
  observers' =
    Broadcast(observers,
              SeqOf(Changes(orders, orders', "orders"))
                \o SeqOf(Changes(order_items, order_items', "order_items")))

\* subscribeToOrderUpdates(callback): the channel is created with its two
\* listeners and joined; nothing committed before is sent.
Subscribe(o) ==
  /\ observers[o].pc # "subscribed"
  /\ observers' =
       [observers EXCEPT
          ![o] = [pc |-> "subscribed", listeners |-> subscribeToOrderUpdates,
                  queue |-> <<>>, received |-> @.received, sent |-> @.sent,
                  since |-> @.sent]]
  /\ UNCHANGED <<now, orders, order_items, gw, tokenCheck, submitted, touched,
                 staffVars, pageVars, apiVars>>

\* The handle that leaves the channel in place.
UnsubscribeKeepsChannel(o) ==
  /\ observers[o].pc = "subscribed"
  /\ observers' = [observers EXCEPT ![o].pc = "unsubscribed"]
  /\ UNCHANGED <<now, orders, order_items, gw, tokenCheck, submitted, touched,
                 staffVars, pageVars, apiVars>>

\* The returned handle: supabase.removeChannel(channel).
Unsubscribe(o) ==
  /\ observers[o].pc = "subscribed"
  /\ observers' =
       [observers EXCEPT
          ![o] = [pc |-> "unsubscribed", listeners |-> {}, queue |-> <<>>,
                  received |-> @.received, sent |-> @.sent,
                  since |-> @.since]]
  /\ UNCHANGED <<now, orders, order_items, gw, tokenCheck, submitted, touched,
                 staffVars, pageVars, apiVars>>

\* Delivery that takes any waiting event, not the earliest one.
DeliverAnyOrder(o) ==
  /\ observers[o].queue # <<>>
  /\ \E k \in 1..Len(observers[o].queue) :
       observers' =
         [observers EXCEPT
            ![o].received = Append(@, observers[o].queue[k]),
            ![o].queue = [j \in 1..(Len(@) - 1) |->
                            IF j < k THEN @[j] ELSE @[j + 1]]]
  /\ UNCHANGED <<now, orders, order_items, gw, tokenCheck, submitted, touched,
                 staffVars, pageVars, apiVars>>

\* The earliest waiting event reaches the observer: callback(payload).
Deliver(o) ==
  /\ observers[o].queue # <<>>
  /\ observers' =
       [observers EXCEPT
          ![o].received = Append(@, Head(observers[o].queue)),
          ![o].queue = Tail(@)]
  /\ UNCHANGED <<now, orders, order_items, gw, tokenCheck, submitted, touched,
                 staffVars, pageVars, apiVars>>

----------------------------------------------------------------------------
(* Supabase service: status writes *)

\* update({ status }).eq('order_item_id', orderItemId): every matching row is
\* rewritten; a row that fails its CHECK makes the statement fail; no matching
\* row is no error.
updateOrderItemStatus(rows, orderItemId, status) ==
  IF orderItemId \in DOMAIN rows
  THEN LET new == update_updated_at_column(
                    [rows[orderItemId] EXCEPT !.status = status])
       IN IF order_items_check(new)
          THEN [rows |-> [rows EXCEPT ![orderItemId] = new], result |-> "ok"]
          ELSE [rows |-> rows, result |-> "error"]
  ELSE [rows |-> rows, result |-> "ok"]

updateOrderStatus(rows, orderId, status) ==
  IF orderId \in DOMAIN rows
  THEN LET new == update_updated_at_column(
                    [rows[orderId] EXCEPT !.status = status])
       IN IF orders_check(new)
          THEN [rows |-> [rows EXCEPT ![orderId] = new], result |-> "ok"]
          ELSE [rows |-> rows, result |-> "error"]
  ELSE [rows |-> rows, result |-> "ok"]

\* A plausible slip: a token is still accepted at the instant it expires.
validateTokenInclusive(tid, tok, lookupError) ==
  IF lookupError
  THEN FALSE
  ELSE LET data == {t \in DOMAIN table_tokens :
                      t = tid /\ table_tokens[t].token = tok}
       IN IF data = {}
          THEN FALSE
          ELSE \A t \in data : table_tokens[t].expires_at >= now

\* .eq('table_id', tableId).eq('token', token).maybeSingle(); lookupError is
\* the query's error or a thrown exception, both answered with false.
validateToken(tid, tok, lookupError) ==
  IF lookupError
  THEN FALSE
  ELSE LET data == {t \in DOMAIN table_tokens :
                      t = tid /\ table_tokens[t].token = tok}
       IN IF data = {}
          THEN FALSE
          ELSE \A t \in data : table_tokens[t].expires_at > now

----------------------------------------------------------------------------
(* Order Submission Gateway (order-create webhook) *)

\* The uuid drawn for a new order: an id no stored order has.
FreshOrderIds == OrderIds \ DOMAIN orders

NewOrderId == CHOOSE o \in FreshOrderIds : \A p \in FreshOrderIds : o <= p

TokenAdmits(tid) ==
  /\ tid \in DOMAIN table_tokens
  /\ table_tokens[tid].expires_at > now

ItemsValid(items) ==
  /\ Len(items) > 0
  /\ \A k \in 1..Len(items) : items[k].qty \in MinQty..MaxQty

CatalogPrice(itemId) == menu_items[itemId].price_cents

NewItemRows(oid, items, n) ==
  [i \in {oid} \X (1..n) |->
     order_items_insert(oid, items[i[2]].itemId, items[i[2]].name,
                        items[i[2]].qty, CatalogPrice(items[i[2]].itemId))]

\* A plausible slip: the rows written before the failing insert stay.
CommitOrderPartial(oid, tid, items, failAt) ==
  IF failAt = 0
  THEN [orders |-> orders @@ (oid :> orders_insert(tid)),
        order_items |-> order_items @@ NewItemRows(oid, items, Len(items))]
  ELSE [orders |-> orders @@ (oid :> orders_insert(tid)),
        order_items |-> order_items @@ NewItemRows(oid, items, failAt - 1)]

\* The order row and its item rows, written as one unit: insert number
\* failAt failing (0: none fails) rolls the whole unit back.
CommitOrder(oid, tid, items, failAt) ==
  IF failAt = 0
  THEN [orders |-> orders @@ (oid :> orders_insert(tid)),
        order_items |-> order_items @@ NewItemRows(oid, items, Len(items))]
  ELSE [orders |-> orders, order_items |-> order_items]

OrderCreate(req, failAt) ==
  IF ~TokenAdmits(req.tableId)
  THEN [kind |-> "InvalidToken", oid |-> 0,
        orders |-> orders, order_items |-> order_items]
  ELSE IF ~ItemsValid(req.items)
  THEN [kind |-> "InvalidItems", oid |-> 0,
        orders |-> orders, order_items |-> order_items]
  ELSE LET c == CommitOrder(NewOrderId, req.tableId, req.items, failAt)
       IN [kind |-> IF failAt = 0 THEN "ok" ELSE "ServerError",
           oid |-> NewOrderId,
           orders |-> c.orders, order_items |-> c.order_items]

Inserts(req) == TokenAdmits(req.tableId) /\ ItemsValid(req.items)

\* One request handled by the gateway, whoever sent it.
Handle(req, failAt, src) ==
  /\ failAt \in 0..Len(req.items)
  /\ Inserts(req) => FreshOrderIds # {}
  /\ ~Inserts(req) => failAt = 0
  /\ LET r == OrderCreate(req, failAt)
     IN /\ orders' = r.orders
        /\ order_items' = r.order_items
        /\ gw' = [src |-> src, tableId |-> req.tableId, items |-> req.items,
                  kind |-> r.kind, oid |-> r.oid, failAt |-> failAt,
                  admitted |-> TokenAdmits(req.tableId)]
        /\ tokenCheck' = [pc |-> "none"]
        /\ submitted' =
             IF Inserts(req) /\ failAt = 0
             THEN submitted @@
                  (NewOrderId :> [src |-> src, tableId |-> req.tableId,
                                  items |-> req.items, at |-> now])
             ELSE submitted

Item(itemId, qty) ==
  [itemId |-> itemId, name |-> menu_items[itemId].name, qty |-> qty]

\* Requests placed while staff work on the orders.
FloorRequests ==
  {[tableId |-> "T1", token |-> "ABC123XYZ789", items |-> l] :
     l \in {<<Item("MENU001", 2)>>,
            <<Item("MENU001", 1), Item("MENU002", 1)>>}}

SubmitFloor(req, failAt) ==
  /\ Cardinality(DOMAIN orders) < MaxFloorOrders
  /\ Handle(req, failAt, "direct")
  /\ UNCHANGED <<now, touched, staffVars, pageVars, apiVars>>
  /\ Publish

\* Requests any caller can send to the endpoint: empty, out-of-range and
\* in-range quantities, a price the caller made up, a table with no token.
Tampered(itemId, qty, price) ==
  [itemId |-> itemId, name |-> menu_items[itemId].name, qty |-> qty,
   price |-> price]

DirectItemLists ==
  {<<>>,
   <<Item("MENU001", 1)>>,
   <<Item("MENU001", 10)>>,
   <<Item("MENU001", 0)>>,
   <<Item("MENU002", 11)>>,
   <<Item("MENU001", 1), Item("MENU002", 11)>>,
   <<Item("MENU001", 1), Item("MENU002", 2)>>,
   <<Tampered("MENU001", 2, 1)>>}

DirectRequests ==
  {[tableId |-> t, token |-> "ABC123XYZ789", items |-> l] :
     t \in {"T1", "T9"}, l \in DirectItemLists}

\* The requests sent past the page while a customer orders from it.
BesideRequests ==
  {[tableId |-> "T1", token |-> "ABC123XYZ789",
    items |-> <<Tampered("MENU001", 2, 1)>>],
   [tableId |-> "T1", token |-> "ABC123XYZ789", items |-> <<>>],
   [tableId |-> "T1", token |-> "ABC123XYZ789",
    items |-> <<Item("MENU001", 1), Item("MENU002", 11)>>],
   [tableId |-> "T9", token |-> "ABC123XYZ789", items |-> <<>>]}

SubmitDirect(req, failAt) ==
  /\ Handle(req, failAt, "direct")
  /\ UNCHANGED <<now, touched, staffVars, pageVars, apiVars>>
  /\ Publish

----------------------------------------------------------------------------
(* Token validation from the pages *)

TableInputs == {"T1", "T9"}
TokenInputs == {"ABC123XYZ789", "DEF456UVW012", "WRONG"}

ValidateTokenCall(tid, tok, lookupError) ==
  /\ tokenCheck' = [pc |-> "done", tableId |-> tid, token |-> tok,
                    lookupError |-> lookupError, at |-> now,
                    result |-> validateToken(tid, tok, lookupError)]
  /\ gw' = [src |-> "none"]
  /\ UNCHANGED <<now, orders, order_items, submitted, touched, staffVars, pageVars, apiVars,
               observers>>

Tick ==
  /\ now < MaxTime
  /\ now' = now + 1
  /\ UNCHANGED <<orders, order_items, gw, tokenCheck, submitted, touched,
                 staffVars, pageVars, apiVars,
               observers>>

----------------------------------------------------------------------------
(* Billing: payment completion (stripe-webhook) *)

StripeWebhook(o) ==
  /\ o \in DOMAIN orders
  /\ orders[o].status = "served"
  /\ orders' = [orders EXCEPT
                  ![o] = update_updated_at_column([@ EXCEPT !.status = "paid"])]
  /\ touched' = touched \cup {o}
  /\ UNCHANGED <<now, order_items, gw, tokenCheck, submitted, staffVars, pageVars, apiVars>>
  /\ Publish

----------------------------------------------------------------------------
(* Staff status updates, each a single statement *)

\* The write that returns only when every dashboard has been handed what was
\* sent to it before.
UpdateOrderItemStatusAwaitsDelivery(orderItemId, status) ==
  LET r == updateOrderItemStatus(order_items, orderItemId, status)
  IN /\ \A o \in Observers : observers[o].queue = <<>>
     /\ order_items' = r.rows
     /\ touched' = IF orderItemId \in DOMAIN order_items /\ r.result = "ok"
                   THEN touched \cup {order_items[orderItemId].order_id}
                   ELSE touched
     /\ UNCHANGED <<now, orders, gw, tokenCheck, submitted, staffVars, pageVars, apiVars>>
     /\ Publish

UpdateOrderItemStatus(orderItemId, status) ==
  LET r == updateOrderItemStatus(order_items, orderItemId, status)
  IN /\ order_items' = r.rows
     /\ touched' = IF orderItemId \in DOMAIN order_items /\ r.result = "ok"
                   THEN touched \cup {order_items[orderItemId].order_id}
                   ELSE touched
     /\ UNCHANGED <<now, orders, gw, tokenCheck, submitted, staffVars, pageVars, apiVars>>
     /\ Publish

UpdateOrderStatus(orderId, status) ==
  LET r == updateOrderStatus(orders, orderId, status)
  IN /\ orders' = r.rows
     /\ touched' = IF orderId \in DOMAIN orders /\ r.result = "ok"
                   THEN touched \cup {orderId}
                   ELSE touched
     /\ UNCHANGED <<now, order_items, gw, tokenCheck, submitted, staffVars, pageVars, apiVars>>
     /\ Publish

----------------------------------------------------------------------------
(* Staff clients: the kitchen and the waiter dashboards call the service    *)
(* functions; a call is in flight from the moment it is sent until the      *)
(* store has executed its statement and the promise settles.                *)

Clients == {"kitchen", "waiter"}

Idle == [pc |-> "idle"]

\* The statuses written while the dashboards are watched.
NotifyStatusInputs == {"preparing"}

\* The order statuses the two clients ask for: two the schema allows and
\* one it does not.
StaffOrderStatusInputs == {"preparing", "served", "cancelled"}

InFlight(c) == calls[c].pc = "sent"

\* Both calls are in flight on the same item, which is preparing, one asking
\* for ready and the other for served.
Racing(cs) ==
  /\ \A c \in Clients : cs[c].pc = "sent" /\ cs[c].op = "item"
  /\ cs["kitchen"].id = cs["waiter"].id
  /\ cs["kitchen"].id \in DOMAIN order_items
  /\ order_items[cs["kitchen"].id].status = "preparing"
  /\ {cs["kitchen"].status, cs["waiter"].status} = {"ready", "served"}

StaffCall(c, op, id, status) ==
  /\ ~InFlight(c)
  /\ calls' = [calls EXCEPT ![c] = [pc |-> "sent", op |-> op, id |-> id,
                                    status |-> status]]
  /\ raced' = Racing(calls')
  /\ UNCHANGED <<now, orders, order_items, gw, tokenCheck, submitted, touched,
                 pageVars, apiVars,
               observers>>

\* The store executes the statement of c's call and the promise settles:
\* "ok" is a normal return, "error" the thrown Error.
Execute(c) ==
  /\ InFlight(c)
  /\ LET call == calls[c]
         r == IF call.op = "item"
              THEN updateOrderItemStatus(order_items, call.id, call.status)
              ELSE updateOrderStatus(orders, call.id, call.status)
         hit == IF call.op = "item"
                THEN IF call.id \in DOMAIN order_items
                     THEN {order_items[call.id].order_id} ELSE {}
                ELSE {call.id} \cap DOMAIN orders
     IN /\ IF call.op = "item"
           THEN order_items' = r.rows /\ orders' = orders
           ELSE orders' = r.rows /\ order_items' = order_items
        /\ touched' = IF r.result = "ok" THEN touched \cup hit ELSE touched
        /\ calls' = [calls EXCEPT ![c] = [pc |-> "done", op |-> call.op,
                                          id |-> call.id, status |-> call.status,
                                          result |-> r.result]]
  /\ UNCHANGED <<now, gw, tokenCheck, submitted, raced, pageVars, apiVars>>
  /\ Publish

----------------------------------------------------------------------------
(* OrderingPage *)

\* A URL parameter that is missing (params.get gives null) or empty.
NoParam == ""
NoError == ""
NoSuccess == [orderId |-> 0]
FetchIdle == [pc |-> "idle"]
NoAlert == ""

UrlParams ==
  {<<"T1", "ABC123XYZ789">>, <<"T1", "WRONG">>, <<"T1", NoParam>>,
   <<NoParam, NoParam>>}

\* useEffect(() => {...}, []): read the URL, then validateAndLoadMenu.
Mount(table, tok) ==
  /\ pagePc = "unmounted"
  /\ tableId' = table
  /\ token' = tok
  /\ IF table = NoParam \/ tok = NoParam
     THEN /\ error' = "Invalid table or token"
          /\ loading' = FALSE
          /\ validatingToken' = FALSE
          /\ pagePc' = "settled"
     ELSE /\ validatingToken' = TRUE
          /\ pagePc' = "validating"
          /\ UNCHANGED <<error, loading>>
  /\ UNCHANGED <<now, orders, order_items, gw, tokenCheck, submitted, touched,
                 staffVars, apiVars, alert, menuItems, cart, submitting, orderSuccess, fetch,
                 callOrders,
               observers>>

\* validateAndLoadMenu without the return that follows a false answer: the
\* error is set and the menu is fetched all the same.
ValidateReturnsFallsThrough(lookupError) ==
  /\ pagePc = "validating"
  /\ LET isValid == validateToken(tableId, token, lookupError)
     IN /\ tokenCheck' = [pc |-> "done", tableId |-> tableId, token |-> token,
                          lookupError |-> lookupError, at |-> now,
                          result |-> isValid]
        /\ gw' = [src |-> "none"]
        /\ error' = IF ~isValid THEN "Invalid or expired token" ELSE error
        /\ validatingToken' = FALSE
        /\ loading' = TRUE
        /\ pagePc' = "loadingMenu"
  /\ UNCHANGED <<now, orders, order_items, submitted, touched, staffVars, apiVars, alert,
                 tableId, token, menuItems, cart, submitting, orderSuccess,
                 fetch,
                 callOrders,
               observers>>

\* validateAndLoadMenu resumes after `await validateToken(table, tok)`.
ValidateReturns(lookupError) ==
  /\ pagePc = "validating"
  /\ LET isValid == validateToken(tableId, token, lookupError)
     IN /\ tokenCheck' = [pc |-> "done", tableId |-> tableId, token |-> token,
                          lookupError |-> lookupError, at |-> now,
                          result |-> isValid]
        /\ gw' = [src |-> "none"]
        /\ IF ~isValid
           THEN /\ error' = "Invalid or expired token"
                /\ validatingToken' = FALSE
                /\ loading' = FALSE
                /\ pagePc' = "settled"
           ELSE /\ validatingToken' = FALSE
                /\ loading' = TRUE
                /\ pagePc' = "loadingMenu"
                /\ error' = error
  /\ UNCHANGED <<now, orders, order_items, submitted, touched, staffVars, apiVars, alert,
                 tableId, token, menuItems, cart, submitting, orderSuccess,
                 fetch,
                 callOrders,
               observers>>

\* .from('menu_items').select('*').eq('available', true)
getAvailableMenuItems == {m \in DOMAIN menu_items : menu_items[m].available}

\* fetchMenuItems resumes after `await getAvailableMenuItems()`, which threw
\* when failed.
MenuReturns(failed) ==
  /\ pagePc = "loadingMenu"
  /\ IF failed
     THEN error' = "Failed to load menu items" /\ menuItems' = menuItems
     ELSE menuItems' = getAvailableMenuItems /\ error' = error
  /\ loading' = FALSE
  /\ pagePc' = "settled"
  /\ UNCHANGED <<now, orders, order_items, gw, tokenCheck, submitted, touched,
                 staffVars, apiVars, alert, tableId, token, validatingToken, cart, submitting,
                 orderSuccess, fetch,
                 callOrders,
               observers>>

\* Which of the page's screens is rendered.
View ==
  IF validatingToken THEN "validating"
  ELSE IF loading THEN "loading"
  ELSE IF error # NoError THEN "error"
  ELSE IF orderSuccess # NoSuccess THEN "success"
  ELSE "main"

\* cart.find(c => c.itemId === item.menu_item_id)?.quantity || 0
QuantityOf(c, itemId) ==
  IF \E k \in 1..Len(c) : c[k].itemId = itemId
  THEN c[CHOOSE k \in 1..Len(c) : c[k].itemId = itemId].quantity
  ELSE 0

updateQuantity(c, itemId, quantity) ==
  IF quantity = 0
  THEN SelectSeq(c, LAMBDA item : item.itemId # itemId)
  ELSE IF \E k \in 1..Len(c) : c[k].itemId = itemId
  THEN [k \in 1..Len(c) |->
          IF c[k].itemId = itemId
          THEN [c[k] EXCEPT !.quantity = quantity]
          ELSE c[k]]
  ELSE IF itemId \in menuItems
  THEN Append(c, [itemId |-> itemId, name |-> menu_items[itemId].name,
                  priceCents |-> menu_items[itemId].price_cents,
                  quantity |-> quantity])
  ELSE c

\* The plus button without its check against the limit.
HandleIncrementNoLimit(itemId, cap) ==
  /\ View = "main"
  /\ itemId \in menuItems
  /\ QuantityOf(cart, itemId) < cap
  /\ cart' = updateQuantity(cart, itemId, QuantityOf(cart, itemId) + 1)
  /\ UNCHANGED <<now, orders, order_items, gw, tokenCheck, submitted, touched,
                 staffVars, apiVars, alert, pagePc, tableId, token, validatingToken, loading,
                 error, menuItems, submitting, orderSuccess, fetch,
                 callOrders,
               observers>>

\* MenuItem's plus button; cap stops the exploration below the limit of 10.
HandleIncrement(itemId, cap) ==
  /\ View = "main"
  /\ itemId \in menuItems
  /\ QuantityOf(cart, itemId) < MaxQty
  /\ QuantityOf(cart, itemId) < cap
  /\ cart' = updateQuantity(cart, itemId, QuantityOf(cart, itemId) + 1)
  /\ UNCHANGED <<now, orders, order_items, gw, tokenCheck, submitted, touched,
                 staffVars, apiVars, alert, pagePc, tableId, token, validatingToken, loading,
                 error, menuItems, submitting, orderSuccess, fetch,
                 callOrders,
               observers>>

\* MenuItem's minus button.
HandleDecrement(itemId) ==
  /\ View = "main"
  /\ itemId \in menuItems
  /\ QuantityOf(cart, itemId) > 0
  /\ cart' = updateQuantity(cart, itemId, QuantityOf(cart, itemId) - 1)
  /\ UNCHANGED <<now, orders, order_items, gw, tokenCheck, submitted, touched,
                 staffVars, apiVars, alert, pagePc, tableId, token, validatingToken, loading,
                 error, menuItems, submitting, orderSuccess, fetch,
                 callOrders,
               observers>>

\* A plausible slip: the cart item is passed on whole but for its renamed
\* quantity, so its price travels in the request.
orderItemsWithPrice(c) ==
  [k \in 1..Len(c) |->
     [itemId |-> c[k].itemId, name |-> c[k].name, qty |-> c[k].quantity,
      price |-> c[k].priceCents]]

\* cart.map(item => ({ itemId, name, qty: item.quantity }))
orderItems(c) ==
  [k \in 1..Len(c) |->
     [itemId |-> c[k].itemId, name |-> c[k].name, qty |-> c[k].quantity]]

\* A plausible slip: the empty-cart check is missing.
handlePlaceOrderGuardNoEmptyCheck(c, table, tok) ==
  IF table = NoParam \/ tok = NoParam THEN "session" ELSE "go"

\* The two early returns of handlePlaceOrder.
handlePlaceOrderGuard(c, table, tok) ==
  IF Len(c) = 0 THEN "empty"
  ELSE IF table = NoParam \/ tok = NoParam THEN "session"
  ELSE "go"

\* Place Order is pressed. Cart disables the button while submitting; that it
\* shows no button for an empty list is not relied on: the handler is run
\* for every cart.
HandlePlaceOrder ==
  /\ View = "main"
  /\ ~submitting
  /\ CASE handlePlaceOrderGuard(cart, tableId, token) = "empty" ->
            /\ alert' = "Please add at least one item to your order."
            /\ UNCHANGED <<submitting, fetch, callOrders>>
       [] handlePlaceOrderGuard(cart, tableId, token) = "session" ->
            /\ alert' = "Invalid session. Please scan the QR code again."
            /\ UNCHANGED <<submitting, fetch, callOrders>>
       [] handlePlaceOrderGuard(cart, tableId, token) = "go" ->
            /\ submitting' = TRUE
            /\ fetch' = [pc |-> "attempt", attempt |-> 0, lastError |-> "none",
                         payload |-> [tableId |-> tableId, token |-> token,
                                      items |-> orderItems(cart)]]
            /\ alert' = alert
            /\ callOrders' = {}
  /\ UNCHANGED <<now, orders, order_items, gw, tokenCheck, submitted, touched,
                 staffVars, apiVars, pagePc, tableId, token, validatingToken, loading,
                 error, menuItems, cart, orderSuccess,
               observers>>

\* setOrderSuccess(null)
OrderMore ==
  /\ View = "success"
  /\ orderSuccess' = NoSuccess
  /\ UNCHANGED <<now, orders, order_items, gw, tokenCheck, submitted, touched,
                 staffVars, apiVars, alert, pagePc, tableId, token, validatingToken, loading,
                 error, menuItems, cart, submitting, fetch,
                 callOrders,
               observers>>

----------------------------------------------------------------------------
(* createOrder over fetchWithRetry *)

RETRY_ATTEMPTS == 2
RETRY_DELAY_MS == 1000

\* The HTTP status the gateway's answer travels with.
ResponseStatus(kind) ==
  CASE kind = "ok" -> 200
    [] kind = "InvalidItems" -> 400
    [] kind = "InvalidToken" -> 401
    [] kind = "ServerError" -> 500

\* A plausible slip: every response that is not ok is thrown into the catch
\* and tried again.
fetchWithRetryReturnsOkOnly(status) == status >= 200 /\ status <= 299

\* A plausible slip: what is neither ok nor 400 is thrown into the catch,
\* the closing `return response` being forgotten.
fetchWithRetryReturnsOkOr400(status) ==
  (status >= 200 /\ status <= 299) \/ status = 400

\* What fetchWithRetry does with a response: hand it back, or throw into its
\* own catch.
fetchWithRetryReturns(status) ==
  IF (status >= 200 /\ status <= 299) \/ status = 400 THEN TRUE
  ELSE IF status >= 500 \/ status = 429 THEN FALSE
  ELSE TRUE

\* A plausible slip: the cart is emptied in handlePlaceOrder's finally, so
\* also when the order failed.
FetchCatchClearsCart(lastError) ==
  IF fetch.attempt < RETRY_ATTEMPTS
  THEN /\ fetch' = [pc |-> "sleep", attempt |-> fetch.attempt,
                    lastError |-> lastError, payload |-> fetch.payload,
                    delay |-> RETRY_DELAY_MS * (2 ^ fetch.attempt)]
       /\ UNCHANGED <<submitting, cart, orderSuccess, alert>>
  ELSE /\ fetch' = FetchIdle
       /\ submitting' = FALSE
       /\ alert' = "Failed after 3 attempts"
       /\ cart' = <<>>
       /\ UNCHANGED orderSuccess

\* The catch block of fetchWithRetry: sleep and go round again, or, after the
\* last attempt, throw through createOrder into handlePlaceOrder's catch and
\* finally.
FetchCatch(lastError) ==
  IF fetch.attempt < RETRY_ATTEMPTS
  THEN /\ fetch' = [pc |-> "sleep", attempt |-> fetch.attempt,
                    lastError |-> lastError, payload |-> fetch.payload,
                    delay |-> RETRY_DELAY_MS * (2 ^ fetch.attempt)]
       /\ UNCHANGED <<submitting, cart, orderSuccess, alert>>
  ELSE /\ fetch' = FetchIdle
       /\ submitting' = FALSE
       /\ alert' = "Failed after 3 attempts"
       /\ UNCHANGED <<cart, orderSuccess>>

\* createOrder without its `!response.ok` check: every response handed back
\* counts as the order's creation.
FetchReturnIgnoresStatus(status, oid, message) ==
  /\ fetch' = FetchIdle
  /\ submitting' = FALSE
  /\ orderSuccess' = [orderId |-> oid, tableId |-> tableId]
  /\ cart' = <<>>
  /\ alert' = alert

\* createOrder and handlePlaceOrder after fetchWithRetry handed a response
\* back: an order id to show, or an alert with the message of the answer.
FetchReturn(status, oid, message) ==
  /\ fetch' = FetchIdle
  /\ submitting' = FALSE
  /\ IF status >= 200 /\ status <= 299
     THEN /\ orderSuccess' = [orderId |-> oid, tableId |-> tableId]
          /\ cart' = <<>>
          /\ alert' = alert
     ELSE /\ alert' = message
          /\ UNCHANGED <<cart, orderSuccess>>

\* The order a request handled by the gateway has left in the store, if any.
CreatedBy(req, failAt) ==
  IF OrderCreate(req, failAt).kind = "ok"
  THEN {OrderCreate(req, failAt).oid}
  ELSE {}

FetchOutcomes == {"network", "busy", "delivered", "responseLost"}

\* One `await fetch(url, options)` of the loop and what follows it.
\*   network       the request never arrives; fetch throws
\*   busy          the server answers 429 without running the workflow
\*   delivered     the gateway handles the request and its answer arrives
\*   responseLost  the gateway handles the request; fetch throws
FetchAttempt(outcome, failAt) ==
  /\ fetch.pc = "attempt"
  /\ CASE outcome = "network" ->
            /\ FetchCatch("network")
            /\ UNCHANGED <<orders, order_items, gw, tokenCheck, submitted, callOrders>>
       [] outcome = "busy" ->
            /\ failAt = 0
            /\ IF fetchWithRetryReturns(429)
               THEN FetchReturn(429, 0, "Failed to create order")
               ELSE FetchCatch("server")
            /\ UNCHANGED <<orders, order_items, gw, tokenCheck, submitted, callOrders>>
       [] outcome = "delivered" ->
            /\ Handle(fetch.payload, failAt, "client")
            /\ callOrders' = callOrders \cup CreatedBy(fetch.payload, failAt)
            /\ LET kind == OrderCreate(fetch.payload, failAt).kind
                   oid == OrderCreate(fetch.payload, failAt).oid
               IN IF fetchWithRetryReturns(ResponseStatus(kind))
                  THEN FetchReturn(ResponseStatus(kind), oid, kind)
                  ELSE FetchCatch("server")
       [] outcome = "responseLost" ->
            /\ Handle(fetch.payload, failAt, "client")
            /\ callOrders' = callOrders \cup CreatedBy(fetch.payload, failAt)
            /\ FetchCatch("network")
  /\ outcome = "network" => failAt = 0
  /\ UNCHANGED <<now, touched, staffVars, apiVars, pagePc, tableId, token,
                 validatingToken, loading, error, menuItems>>
  /\ Publish

\* await sleep(delay) is over; the loop's next round.
FetchSleepDone ==
  /\ fetch.pc = "sleep"
  /\ fetch' = [pc |-> "attempt", attempt |-> fetch.attempt + 1,
               lastError |-> fetch.lastError, payload |-> fetch.payload]
  /\ UNCHANGED <<now, orders, order_items, gw, tokenCheck, submitted, touched,
                 staffVars, apiVars, alert, pagePc, tableId, token, validatingToken, loading,
                 error, menuItems, cart, submitting, orderSuccess,
                 callOrders,
               observers>>

----------------------------------------------------------------------------
(* The API service functions over fetchWithRetry, the server left open *)

ApiFunctions ==
  {"createOrder", "updateKitchenStatus", "markOrderServed", "generateBill"}

ApiIdle == [pc |-> "idle"]

\* `await fetch` threw: no response at all.
NetworkError == 0

\* What one `await fetch` may come to: no response, or a response with one of
\* these statuses.
ApiResponses == {NetworkError, 200, 400, 404, 429, 500}

\* The body of a response that is not ok: JSON with a message, or anything
\* else.
NoMessage == ""
ApiBodies == {NoMessage, "message of the response"}

\* error.message || '<the function's own text>'
ApiErrorMessage(fn, body) ==
  IF body # NoMessage THEN body
  ELSE CASE fn = "createOrder" -> "Failed to create order"
         [] fn = "updateKitchenStatus" -> "Failed to update kitchen status"
         [] fn = "markOrderServed" -> "Failed to mark order as served"
         [] fn = "generateBill" -> "Failed to generate bill"

\* One of the four functions is called and enters fetchWithRetry's loop.
ApiCall(fn) ==
  /\ api.pc = "idle"
  /\ api' = [pc |-> "attempt", fn |-> fn, attempt |-> 0, tries |-> <<>>,
             delays |-> <<>>]
  /\ UNCHANGED <<now, orders, order_items, gw, tokenCheck, submitted, touched,
                 staffVars, pageVars, batch, sql, lookup,
               observers>>

\* The catch block with a wait that does not grow.
ApiCatchFixedDelay ==
  IF api.attempt < RETRY_ATTEMPTS
  THEN [pc |-> "sleep", fn |-> api.fn, attempt |-> api.attempt,
        delays |-> Append(api.delays, RETRY_DELAY_MS)]
  ELSE [pc |-> "threw", fn |-> api.fn, attempt |-> api.attempt,
        delays |-> api.delays, by |-> "fetchWithRetry",
        message |-> "Failed after 3 attempts"]

\* The catch block: sleep before the next round, or leave the loop and throw.
ApiCatch ==
  IF api.attempt < RETRY_ATTEMPTS
  THEN [pc |-> "sleep", fn |-> api.fn, attempt |-> api.attempt,
        delays |-> Append(api.delays, RETRY_DELAY_MS * (2 ^ api.attempt))]
  ELSE [pc |-> "threw", fn |-> api.fn, attempt |-> api.attempt,
        delays |-> api.delays, by |-> "fetchWithRetry",
        message |-> "Failed after 3 attempts"]

\* One round of the loop: `await fetch` settles, and the response is handed
\* back to the calling function, which returns or throws, or the catch block
\* runs.
ApiAttempt(resp, body) ==
  /\ api.pc = "attempt"
  /\ (resp = NetworkError \/ (resp >= 200 /\ resp <= 299)) => body = NoMessage
  /\ LET tries == Append(api.tries, resp)
         next ==
           IF resp = NetworkError THEN ApiCatch
           ELSE IF fetchWithRetryReturns(resp)
           THEN IF resp >= 200 /\ resp <= 299
                THEN [pc |-> "returned", fn |-> api.fn, attempt |-> api.attempt,
                      delays |-> api.delays]
                ELSE [pc |-> "threw", fn |-> api.fn, attempt |-> api.attempt,
                      delays |-> api.delays, by |-> api.fn,
                      message |-> ApiErrorMessage(api.fn, body)]
           ELSE ApiCatch
     IN api' = [f \in DOMAIN next \cup {"tries", "body"} |->
                  IF f = "tries" THEN tries
                  ELSE IF f = "body" THEN body ELSE next[f]]
  /\ UNCHANGED <<now, orders, order_items, gw, tokenCheck, submitted, touched,
                 staffVars, pageVars, batch, sql, lookup,
               observers>>

\* await sleep(delay) is over.
ApiSleepDone ==
  /\ api.pc = "sleep"
  /\ api' = [pc |-> "attempt", fn |-> api.fn, attempt |-> api.attempt + 1,
             tries |-> api.tries, delays |-> api.delays]
  /\ UNCHANGED <<now, orders, order_items, gw, tokenCheck, submitted, touched,
                 staffVars, pageVars, batch, sql, lookup,
               observers>>

----------------------------------------------------------------------------
(* Status Transition Engine behind the order-served webhook *)

StickyStatuses == {"paid", "closed"}

NoBatch == [orderId |-> 0]

\* The order status that goes with the statuses of an order's items. Where
\* the rule leaves the choice open: in_kitchen as long as an item is pending
\* or preparing, ready once every item is ready or served.
DeriveOrderStatus(statuses) ==
  LET total == Cardinality(DOMAIN statuses)
      any(S) == \E i \in DOMAIN statuses : statuses[i] \in S
      all(S) == \A i \in DOMAIN statuses : statuses[i] \in S
  IN IF total > 0 /\ all({"served"}) THEN "served"
     ELSE IF all({"pending"}) THEN "pending"
     ELSE IF any({"pending", "preparing"}) THEN "in_kitchen"
     ELSE "ready"

\* The statuses of the items of order o, by item.
StatusesOf(rows, o) == [i \in ItemsOf(rows, o) |-> rows[i].status]

\* Set the listed items to served, those that are served already left alone,
\* then recompute the order status and write it if it is another one and the
\* order is neither paid nor closed. writes lists the order statuses written.
applyServed(ord, rows, orderId, servedItems) ==
  LET rows2 == [i \in DOMAIN rows |->
                  IF i \in servedItems /\ rows[i].status # "served"
                  THEN update_updated_at_column(
                         [rows[i] EXCEPT !.status = "served"])
                  ELSE rows[i]]
      derived == DeriveOrderStatus(StatusesOf(rows2, orderId))
      change == /\ ord[orderId].status \notin StickyStatuses
                /\ derived # ord[orderId].status
  IN [order_items |-> rows2,
      orders |-> IF change
                 THEN [ord EXCEPT ![orderId] =
                         update_updated_at_column([@ EXCEPT !.status = derived])]
                 ELSE ord,
      writes |-> IF change THEN <<derived>> ELSE <<>>]

RECURSIVE applyServedEach(_, _, _, _, _)
applyServedEach(ord, rows, orderId, todo, writes) ==
  IF todo = {}
  THEN [order_items |-> rows, orders |-> ord, writes |-> writes]
  ELSE LET i == CHOOSE x \in todo : \A y \in todo : x[2] <= y[2]
           r == applyServed(ord, rows, orderId, {i})
       IN applyServedEach(r.orders, r.order_items, orderId, todo \ {i},
                          writes \o r.writes)

\* A plausible slip: the order status is recomputed and written after every
\* item of the batch.
markServedPerItem(ord, rows, orderId, servedItems) ==
  applyServedEach(ord, rows, orderId, servedItems, <<>>)

\* markServed(orderId, itemIds[]): one recomputation after the whole batch.
markServed(ord, rows, orderId, servedItems) ==
  applyServed(ord, rows, orderId, servedItems)

\* POST order-served {orderId, servedItems}: the webhook handles one batch.
OrderServed(orderId, servedItems) ==
  /\ orderId \in DOMAIN orders
  /\ servedItems # {}
  /\ servedItems \subseteq ItemsOf(order_items, orderId)
  /\ LET r == markServed(orders, order_items, orderId, servedItems)
     IN /\ orders' = r.orders
        /\ order_items' = r.order_items
        /\ batch' = [orderId |-> orderId, servedItems |-> servedItems,
                     writes |-> r.writes, result |-> "ok"]
  /\ touched' = touched \cup {orderId}
  /\ UNCHANGED <<now, gw, tokenCheck, submitted, staffVars, pageVars, api,
                 sql, lookup>>
  /\ Publish

----------------------------------------------------------------------------
(* INSERT statements as the database takes them from any caller: the insert *)
(* policies of orders and order_items admit everyone, the constraints of   *)
(* the tables decide.                                                      *)

NoStatement == [table |-> "none"]

QtyInputs == {-1, 0, 1}
PriceInputs == {-1, 0, 1}

\* INSERT INTO orders (table_id) VALUES (...)
InsertOrder(table_id) ==
  /\ FreshOrderIds # {}
  /\ LET row == orders_insert(table_id)
     IN IF orders_check(row)
        THEN /\ orders' = orders @@ (NewOrderId :> row)
             /\ sql' = [table |-> "orders", row |-> row, result |-> "ok"]
        ELSE /\ orders' = orders
             /\ sql' = [table |-> "orders", row |-> row,
                        result |-> "check_violation"]
  /\ UNCHANGED <<now, order_items, gw, tokenCheck, submitted, touched,
                 staffVars, pageVars, api, batch, lookup>>
  /\ Publish

\* INSERT INTO order_items (order_id, menu_item_id, name, qty, price_cents)
\* VALUES (...): refused when the order is missing (foreign key) or a CHECK
\* fails.
InsertOrderItem(order_id, menu_item_id, qty, price_cents) ==
  LET row == order_items_insert(order_id, menu_item_id,
                                menu_items[menu_item_id].name, qty, price_cents)
      position == Cardinality(ItemsOf(order_items, order_id)) + 1
  IN /\ position <= MaxItems
     /\ IF order_id \notin DOMAIN orders
        THEN /\ order_items' = order_items
             /\ sql' = [table |-> "order_items", row |-> row,
                        result |-> "foreign_key_violation"]
        ELSE IF ~order_items_check(row)
        THEN /\ order_items' = order_items
             /\ sql' = [table |-> "order_items", row |-> row,
                        result |-> "check_violation"]
        ELSE /\ order_items' = order_items @@ (<<order_id, position>> :> row)
             /\ sql' = [table |-> "order_items", row |-> row, result |-> "ok"]
     /\ UNCHANGED <<now, orders, gw, tokenCheck, submitted, touched,
                    staffVars, pageVars, api, batch, lookup>>
     /\ Publish

----------------------------------------------------------------------------
(* Reading a table's order *)

NoLookup == [pc |-> "none"]

\* .in('status', ['pending', 'in_kitchen', 'preparing', 'ready', 'served'])
LookupStatuses == {"pending", "in_kitchen", "preparing", "ready", "served"}

\* .order('created_at', { ascending: false }): the rows, latest first; rows of
\* one instant in any one order.
OrderByCreatedAtDesc(rows, ids) ==
  CHOOSE seq \in [1..Cardinality(ids) -> ids] :
    /\ \A j, k \in 1..Cardinality(ids) : seq[j] = seq[k] => j = k
    /\ \A j, k \in 1..Cardinality(ids) :
         j < k => rows[seq[j]].created_at >= rows[seq[k]].created_at

\* .maybeSingle(): no row is null (0 here), one row is that row, several rows
\* are an error.
maybeSingle(seq) ==
  IF Len(seq) = 0 THEN [data |-> 0, error |-> FALSE]
  ELSE IF Len(seq) = 1 THEN [data |-> seq[1], error |-> FALSE]
  ELSE [data |-> 0, error |-> TRUE]

getOrderByTable(rows, tid) ==
  LET matching == {o \in DOMAIN rows :
                     /\ rows[o].table_id = tid
                     /\ rows[o].status \in LookupStatuses}
      r == maybeSingle(OrderByCreatedAtDesc(rows, matching))
  IN IF r.error
     THEN [pc |-> "threw", tableId |-> tid, message |-> "Failed to fetch order"]
     ELSE [pc |-> "returned", tableId |-> tid, data |-> r.data]

GetOrderByTable(tid) ==
  /\ lookup' = getOrderByTable(orders, tid)
  /\ UNCHANGED <<now, orders, order_items, gw, tokenCheck, submitted, touched,
                 staffVars, pageVars, api, batch, sql,
               observers>>

----------------------------------------------------------------------------
NoExchange == [src |-> "none"]
NoCheck == [pc |-> "none"]

Init ==
  /\ now = 0
  /\ orders = <<>>
  /\ order_items = <<>>
  /\ gw = NoExchange
  /\ tokenCheck = NoCheck
  /\ submitted = <<>>
  /\ touched = {}
  /\ calls = [c \in Clients |-> Idle]
  /\ raced = FALSE
  /\ pagePc = "unmounted"
  /\ tableId = NoParam
  /\ token = NoParam
  /\ validatingToken = TRUE
  /\ loading = TRUE
  /\ error = NoError
  /\ menuItems = {}
  /\ cart = <<>>
  /\ submitting = FALSE
  /\ orderSuccess = NoSuccess
  /\ alert = NoAlert
  /\ fetch = FetchIdle
  /\ callOrders = {}
  /\ lookup = NoLookup
  /\ observers = [o \in Observers |-> NotSubscribed]
  /\ api = ApiIdle
  /\ batch = NoBatch
  /\ sql = NoStatement

Next ==
  \/ \E req \in FloorRequests, failAt \in 0..MaxItems : SubmitFloor(req, failAt)
  \/ \E i \in OrderItemIds, s \in ItemStatusInputs : UpdateOrderItemStatus(i, s)
  \/ \E o \in OrderIds, s \in StatusInputs : UpdateOrderStatus(o, s)
  \/ \E o \in OrderIds : StripeWebhook(o)

Spec == Init /\ [][Next]_vars

\* The store with two staff clients whose calls overlap.
NextStaff ==
  \/ \E req \in FloorRequests : SubmitFloor(req, 0)
  \/ \E c \in Clients, i \in OrderItemIds, s \in ItemStatusInputs :
       StaffCall(c, "item", i, s)
  \/ \E c \in Clients, o \in OrderIds, s \in StaffOrderStatusInputs :
       StaffCall(c, "order", o, s)
  \/ \E c \in Clients : Execute(c)

SpecStaff == Init /\ [][NextStaff]_vars

\* The store over time: all status writes, by the service functions and by
\* the webhooks.
NextStore ==
  \/ \E req \in FloorRequests : SubmitFloor(req, 0)
  \/ \E i \in OrderItemIds, s \in ItemStatusInputs : UpdateOrderItemStatus(i, s)
  \/ \E o \in OrderIds, s \in StatusInputs : UpdateOrderStatus(o, s)
  \/ \E o \in OrderIds, l \in SUBSET OrderItemIds : OrderServed(o, l)
  \/ \E o \in OrderIds : StripeWebhook(o)
  \/ Tick

SpecStore == Init /\ [][NextStore]_vars

\* The tables against the INSERT statements of any caller.
NextSchema ==
  \/ \E t \in TableInputs : InsertOrder(t)
  \/ \E o \in OrderIds, m \in DOMAIN menu_items, q \in QtyInputs,
        c \in PriceInputs : InsertOrderItem(o, m, q, c)

SpecSchema == Init /\ [][NextSchema]_vars

\* The gateway and the token check, called by anyone, as time passes.
NextGateway ==
  \/ \E req \in DirectRequests, failAt \in 0..MaxItems : SubmitDirect(req, failAt)
  \/ \E t \in TableInputs, k \in TokenInputs, e \in BOOLEAN :
       ValidateTokenCall(t, k, e)
  \/ Tick

SpecGateway == Init /\ [][NextGateway]_vars

\* One customer's page, from the scan to the order, next to callers who go to
\* the gateway themselves.
NextOrdering ==
  \/ \E u \in UrlParams : Mount(u[1], u[2])
  \/ \E e \in BOOLEAN : ValidateReturns(e)
  \/ \E f \in BOOLEAN : MenuReturns(f)
  \/ \E m \in DOMAIN menu_items : HandleIncrement(m, MaxCartQty)
  \/ \E m \in DOMAIN menu_items : HandleDecrement(m)
  \/ HandlePlaceOrder
  \/ \E out \in FetchOutcomes, failAt \in 0..MaxItems : FetchAttempt(out, failAt)
  \/ FetchSleepDone
  \/ OrderMore
  \/ \E req \in BesideRequests, failAt \in 0..MaxItems : SubmitDirect(req, failAt)

SpecOrdering == Init /\ [][NextOrdering]_vars

\* Orders of one table are created, their statuses written and the table's
\* order read, while time passes.
NextLookup ==
  \/ \E req \in FloorRequests : SubmitDirect(req, 0)
  \/ \E o \in OrderIds, s \in StatusInputs : UpdateOrderStatus(o, s)
  \/ \E o \in OrderIds : StripeWebhook(o)
  \/ \E t \in DOMAIN table_tokens : GetOrderByTable(t)
  \/ Tick

SpecLookup == Init /\ [][NextLookup]_vars

\* The dashboards subscribe, unsubscribe and are handed changes while one
\* order is created and its statuses are written. MaxEvents ends the
\* exploration, not the writes: it stands here and in no action.
NextNotify ==
  \/ \E o \in Observers : Subscribe(o)
  \/ \E o \in Observers : Unsubscribe(o)
  \/ \E o \in Observers : Deliver(o)
  \/ \E req \in FloorRequests :
       (\A o \in Observers : observers[o].sent < MaxEvents) /\ SubmitFloor(req, 0)
  \/ \E i \in OrderItemIds, s \in NotifyStatusInputs :
       (\A o \in Observers : observers[o].sent < MaxEvents)
         /\ UpdateOrderItemStatus(i, s)
  \/ \E o \in OrderIds, s \in NotifyStatusInputs :
       (\A p \in Observers : observers[p].sent < MaxEvents)
         /\ UpdateOrderStatus(o, s)

SpecNotify == Init /\ [][NextNotify]_vars

\* The same where an event that waits for an observer is handed over in the
\* end.
SpecNotifyFair ==
  /\ SpecNotify
  /\ \A o \in Observers : WF_vars(Deliver(o))

\* One customer session alone while time passes, so that the token can expire
\* between the page's check and the gateway's.
NextSession ==
  \/ \E u \in UrlParams : Mount(u[1], u[2])
  \/ \E e \in BOOLEAN : ValidateReturns(e)
  \/ \E f \in BOOLEAN : MenuReturns(f)
  \/ \E m \in DOMAIN menu_items : HandleIncrement(m, MaxCartQty)
  \/ \E m \in DOMAIN menu_items : HandleDecrement(m)
  \/ HandlePlaceOrder
  \/ \E out \in FetchOutcomes, failAt \in 0..MaxItems : FetchAttempt(out, failAt)
  \/ FetchSleepDone
  \/ OrderMore
  \/ Tick

SpecSession == Init /\ [][NextSession]_vars

\* The page and its quantity buttons alone while time passes, with no cap
\* below the limit: only the button's own check stops the plus button.
NextCart ==
  \/ \E p \in UrlParams : Mount(p[1], p[2])
  \/ \E lookupError \in BOOLEAN : ValidateReturns(lookupError)
  \/ \E failed \in BOOLEAN : MenuReturns(failed)
  \/ \E m \in DOMAIN menu_items : HandleIncrement(m, MaxQty + 1)
  \/ \E m \in DOMAIN menu_items : HandleDecrement(m)
  \/ Tick

SpecCart == Init /\ [][NextCart]_vars

\* One call of an API service function.
NextApi ==
  \/ \E fn \in ApiFunctions : ApiCall(fn)
  \/ \E resp \in ApiResponses, body \in ApiBodies : ApiAttempt(resp, body)
  \/ ApiSleepDone

SpecApi == Init /\ [][NextApi]_vars

\* The same where every `await` settles: the browser ends a fetch that gets no
\* answer, and a timer fires.
SpecApiFair ==
  /\ SpecApi
  /\ WF_vars(\E resp \in ApiResponses, body \in ApiBodies : ApiAttempt(resp, body))
  /\ WF_vars(ApiSleepDone)

----------------------------------------------------------------------------
(* Properties of the status writes *)

StatusRank(s) ==
  CASE s = "pending" -> 0
    [] s = "preparing" -> 1
    [] s = "ready" -> 2
    [] s = "served" -> 3

\* How many items of order o have each status.
StatusCounts(rows, o) ==
  [s \in ItemStatuses |-> Cardinality({i \in ItemsOf(rows, o) : rows[i].status = s})]

Terminal == {"paid", "closed"}

\* C1: no step moves an order item's status backward in
\* pending < preparing < ready < served.
C1_ItemStatusNeverBackward ==
  [][\A i \in DOMAIN order_items :
       StatusRank(order_items'[i].status) >= StatusRank(order_items[i].status)]_vars

\* C4: while an order is neither paid nor closed its status is a function of
\* its items' statuses, so a step that leaves the items' statuses as they were
\* leaves the order's status as it was.
C4_OrderStatusFunctionOfItems ==
  [][\A o \in DOMAIN orders :
       ( /\ orders[o].status \notin Terminal
         /\ orders'[o].status \notin Terminal
         /\ StatusCounts(order_items', o) = StatusCounts(order_items, o) )
       => orders'[o].status = orders[o].status]_vars

\* C5: an order that is paid or closed keeps its status in every later step.
C5_PaidClosedAbsorbing ==
  [][\A o \in DOMAIN orders :
       orders[o].status \in Terminal => orders'[o].status = orders[o].status]_vars

\* C10: an order no staff update or payment has written to is pending, and
\* so is each of its items, which carries the submitted quantity.
C10_CreatedPending ==
  \A o \in DOMAIN orders \ touched :
    /\ orders[o].status = "pending"
    /\ ItemsOf(order_items, o) = {o} \X (1..Len(submitted[o].items))
    /\ \A i \in ItemsOf(order_items, o) :
         /\ order_items[i].status = "pending"
         /\ order_items[i].qty = submitted[o].items[i[2]].qty

\* A two-item order exists untouched while nothing has been written to it.
C10_Witness ==
  \E o \in DOMAIN orders \ touched :
    /\ Cardinality(ItemsOf(order_items, o)) = 2
    /\ \E i \in ItemsOf(order_items, o) : order_items[i].qty = 1

\* C2: a call that moves an item one step forward returns normally and is
\* applied; a call that names an earlier status than the item has fails with
\* IllegalTransition and leaves the item and the order as they were.
C2_ForwardSucceedsBackwardFails ==
  [][\A c \in Clients :
       ( /\ InFlight(c)
         /\ calls'[c].pc = "done"
         /\ calls[c].op = "item"
         /\ calls[c].id \in DOMAIN order_items
         /\ calls[c].status \in ItemStatuses )
       => LET cur == order_items[calls[c].id].status
              new == calls[c].status
          IN /\ StatusRank(new) = StatusRank(cur) + 1
                  => /\ calls'[c].result = "ok"
                     /\ order_items'[calls[c].id].status = new
             /\ StatusRank(new) < StatusRank(cur)
                  => /\ calls'[c].result = "IllegalTransition"
                     /\ order_items'[calls[c].id].status = cur
                     /\ orders' = orders]_vars

\* C3: of two calls that were in flight together on a preparing item, one to
\* ready and one to served, exactly one is applied and the other fails with
\* Conflict.
C3_OneWinnerOneConflict ==
  (raced /\ \A c \in Clients : calls[c].pc = "done")
  => \E w \in Clients :
       /\ calls[w].result = "ok"
       /\ order_items[calls[w].id].status = calls[w].status
       /\ \A l \in Clients \ {w} : calls[l].result = "Conflict"

----------------------------------------------------------------------------
(* Properties of order creation *)

\* C6: an order row exists exactly when a creation went through, and then
\* every item submitted with it exists and no other; a creation that failed
\* at some insert left neither the order nor any of its items.
C6_CreationAllOrNothing ==
  /\ DOMAIN orders = DOMAIN submitted
  /\ \A i \in DOMAIN order_items : order_items[i].order_id \in DOMAIN orders
  /\ \A o \in DOMAIN orders :
       /\ ItemsOf(order_items, o) = {o} \X (1..Len(submitted[o].items))
       /\ \A i \in ItemsOf(order_items, o) :
            /\ order_items[i].menu_item_id = submitted[o].items[i[2]].itemId
            /\ order_items[i].qty = submitted[o].items[i[2]].qty
  /\ (gw.src # "none" /\ gw.kind = "ServerError")
       => /\ gw.oid \notin DOMAIN orders
          /\ ItemsOf(order_items, gw.oid) = {}

\* The second item insert of a two-item order has just failed, while an
\* earlier two-item order is stored whole.
C6_Witness ==
  /\ gw.src # "none"
  /\ gw.kind = "ServerError"
  /\ gw.failAt = 2
  /\ \E o \in DOMAIN orders : Cardinality(ItemsOf(order_items, o)) = 2

\* C7: every order was created for a table whose token row existed and
\* expired strictly after the time of creation; validateToken answers true
\* exactly when the lookup worked and a row with that table id and that token
\* expires strictly after the time of the call.
C7_TokenValidation ==
  /\ \A o \in DOMAIN submitted :
       /\ submitted[o].tableId \in DOMAIN table_tokens
       /\ table_tokens[submitted[o].tableId].expires_at > submitted[o].at
       /\ orders[o].created_at = submitted[o].at
  /\ tokenCheck.pc = "done"
       => ( tokenCheck.result
            <=> /\ ~tokenCheck.lookupError
                /\ \E t \in DOMAIN table_tokens :
                     /\ t = tokenCheck.tableId
                     /\ table_tokens[t].token = tokenCheck.token
                     /\ table_tokens[t].expires_at > tokenCheck.at )

\* validateToken has answered false for the right table and token at the very
\* instant of expiry, and an order created before that instant is stored.
C7_Witness ==
  /\ tokenCheck.pc = "done"
  /\ tokenCheck.tableId = "T1"
  /\ tokenCheck.token = table_tokens["T1"].token
  /\ ~tokenCheck.lookupError
  /\ tokenCheck.at = table_tokens["T1"].expires_at
  /\ ~tokenCheck.result
  /\ orders # <<>>

----------------------------------------------------------------------------
(* Properties of what the customer sends *)

RequestFields == {"itemId", "name", "qty"}

\* An item list the gateway must refuse.
BadItems(items) ==
  \/ Len(items) = 0
  \/ \E k \in 1..Len(items) : items[k].qty \notin MinQty..MaxQty

\* C8: every stored order item carries the catalog price of its menu item,
\* whatever the caller sent along, and every item of a request built by the
\* page, in flight or as the gateway received it, has the fields itemId, name
\* and qty and no other.
C8_PriceFromCatalog ==
  /\ \A i \in DOMAIN order_items :
       order_items[i].price_cents =
         menu_items[order_items[i].menu_item_id].price_cents
  /\ fetch.pc # "idle" =>
       \A k \in 1..Len(fetch.payload.items) :
         DOMAIN fetch.payload.items[k] = RequestFields
  /\ gw.src = "client" =>
       \A k \in 1..Len(gw.items) : DOMAIN gw.items[k] = RequestFields

\* An order placed from the page is stored next to one whose request named a
\* price of its own, other than the price stored with its item.
C8_Witness ==
  \E o1, o2 \in DOMAIN submitted :
    /\ submitted[o1].src = "client"
    /\ submitted[o2].src = "direct"
    /\ "price" \in DOMAIN submitted[o2].items[1]
    /\ <<o2, 1>> \in DOMAIN order_items
    /\ submitted[o2].items[1].price # order_items[<<o2, 1>>].price_cents

\* No stored order comes from a list the gateway must refuse, and the page
\* has sent no empty list.
NoBadOrder ==
  /\ \A o \in DOMAIN orders :
       /\ o \in DOMAIN submitted
       /\ ~BadItems(submitted[o].items)
       /\ ItemsOf(order_items, o) # {}
       /\ \A i \in ItemsOf(order_items, o) :
            order_items[i].qty \in MinQty..MaxQty
  /\ fetch.pc # "idle" => Len(fetch.payload.items) > 0
  /\ gw.src = "client" => Len(gw.items) > 0

----------------------------------------------------------------------------
(* Properties of fetchWithRetry and the API service functions *)

\* What leads to another attempt: a thrown network error, 429, 5xx.
Retryable(resp) == resp = NetworkError \/ resp = 429 \/ resp >= 500

IsOk(resp) == resp >= 200 /\ resp <= 299

Last(seq) == seq[Len(seq)]

\* C11: one call makes at most 1 + RETRY_ATTEMPTS = 3 attempts; every attempt
\* but the last one made ended in a network error, a 429 or a 5xx; the call
\* hands back the first response that is ok or not to be retried, or throws
\* after the third failed attempt; and every call that has started ends.
C11_BoundedRetry ==
  /\ [](api.pc # "idle" =>
         /\ Len(api.tries) <= 1 + RETRY_ATTEMPTS
         /\ Len(api.tries) <= 3
         /\ \A k \in 1..(Len(api.tries) - 1) : Retryable(api.tries[k])
         /\ api.pc = "attempt" => Len(api.tries) = api.attempt
         /\ api.pc = "sleep" => Retryable(Last(api.tries))
         /\ api.pc = "returned" => IsOk(Last(api.tries))
         /\ (api.pc = "threw" /\ api.by # "fetchWithRetry") =>
              (~Retryable(Last(api.tries)) /\ ~IsOk(Last(api.tries)))
         /\ (api.pc = "threw" /\ api.by = "fetchWithRetry") =>
              (Len(api.tries) = 3 /\ Retryable(Last(api.tries))))
  /\ (api.pc \in {"attempt", "sleep"} ~> api.pc \in {"returned", "threw"})

\* fetchWithRetry threw after a 5xx, a network error and a 429.
C11_Witness ==
  /\ api.pc = "threw"
  /\ api.by = "fetchWithRetry"
  /\ api.tries = <<500, NetworkError, 429>>

\* A response the caller is to blame for: 4xx, 429 apart.
CallerError(resp) == resp >= 400 /\ resp <= 499 /\ resp # 429

\* C12: a 4xx response other than 429 ends the call on the attempt that got
\* it: no attempt and no sleep follows, as the first response it is the only
\* one, and the called function throws an error with the message of the
\* response, or with its own text when the response has none.
C12_CallerErrorNotRetried ==
  api.pc # "idle" =>
    /\ \A k \in 1..(Len(api.tries) - 1) : ~CallerError(api.tries[k])
    /\ (Len(api.tries) > 0 /\ CallerError(Last(api.tries))) =>
         /\ api.pc = "threw"
         /\ api.by = api.fn
         /\ api.by \in ApiFunctions
         /\ api.message = ApiErrorMessage(api.fn, api.body)
         /\ api.body # NoMessage => api.message = api.body
         /\ Len(api.delays) = Len(api.tries) - 1
         /\ CallerError(api.tries[1]) => (Len(api.tries) = 1 /\ api.delays = <<>>)

\* markOrderServed threw the message of a 404 that was the first answer.
C12_Witness ==
  /\ api.pc = "threw"
  /\ api.fn = "markOrderServed"
  /\ api.tries = <<404>>
  /\ api.message = "message of the response"

\* An attempt of createOrder's request fails in a way that is retried: no
\* answer, a 429, an answer that is lost, or a 5xx answer of the gateway.
AttemptFails ==
  \/ FetchAttempt("network", 0)
  \/ FetchAttempt("busy", 0)
  \/ \E failAt \in 0..MaxItems : FetchAttempt("responseLost", failAt)
  \/ \E failAt \in 0..MaxItems :
       FetchAttempt("delivered", failAt) /\ gw'.kind = "ServerError"

\* C13: a failing attempt that is not the last one shows the user nothing and
\* is followed by a sleep; when the third attempt fails too, fetchWithRetry
\* throws 'Failed after 3 attempts', handlePlaceOrder puts that message up,
\* sets no order success, leaves the cart as it is and ends the submitting.
C13_FailureSurfacedAfterRetries ==
  [][AttemptFails =>
       IF fetch.attempt < RETRY_ATTEMPTS
       THEN /\ fetch'.pc = "sleep"
            /\ alert' = alert
            /\ submitting'
       ELSE /\ fetch.attempt = 2
            /\ fetch' = FetchIdle
            /\ alert' = "Failed after 3 attempts"
            /\ orderSuccess' = orderSuccess
            /\ orderSuccess' = NoSuccess
            /\ cart' = cart
            /\ ~submitting']_vars

\* The order has failed for good: the message is up, the cart is still
\* filled, and the page shows the menu with Place Order enabled again.
C13_Witness ==
  /\ alert = "Failed after 3 attempts"
  /\ fetch = FetchIdle
  /\ cart # <<>>
  /\ orderSuccess = NoSuccess
  /\ ~submitting
  /\ View = "main"

----------------------------------------------------------------------------
(* Properties of the store over time *)

AllServed(statuses) ==
  /\ DOMAIN statuses # {}
  /\ \A i \in DOMAIN statuses : statuses[i] = "served"

\* C14: a step that makes the last item of an order served makes the order
\* served, and no order is served while one of its items is not.
C14_AllServedMakesOrderServed ==
  /\ [][\A o \in DOMAIN orders :
          ( /\ ~AllServed(StatusesOf(order_items, o))
            /\ AllServed(StatusesOf(order_items', o)) )
          => orders'[o].status = "served"]_vars
  /\ [](\A o \in DOMAIN orders :
          (\E i \in ItemsOf(order_items, o) : order_items[i].status # "served")
          => orders[o].status # "served")

\* C15: a served marking writes the order status at most once, namely the
\* status derived from the items after the whole batch, and only if that is
\* another status than before; every listed item is served afterwards, the
\* rows of items that were served before are as they were, and the marking
\* reports no error.
C15_OneRecomputationPerBatch ==
  [][batch' # batch =>
       LET o == batch'.orderId
           derived == DeriveOrderStatus(StatusesOf(order_items', o))
       IN /\ batch'.result = "ok"
          /\ Len(batch'.writes) <= 1
          /\ \A i \in batch'.servedItems : order_items'[i].status = "served"
          /\ \A i \in DOMAIN order_items :
               (i \notin batch'.servedItems \/ order_items[i].status = "served")
               => order_items'[i] = order_items[i]
          /\ orders[o].status \notin StickyStatuses =>
               /\ orders'[o].status = derived
               /\ batch'.writes =
                    IF derived # orders[o].status THEN <<derived>> ELSE <<>>
          /\ batch'.writes = <<>> => orders' = orders]_vars

\* One marking has served both items of an order, one of which was served
\* before, and has written the order status served, once.
C15_Witness ==
  /\ batch.orderId \in DOMAIN orders
  /\ Cardinality(batch.servedItems) = 2
  /\ batch.writes = <<"served">>
  /\ orders[batch.orderId].status = "served"
  /\ \E i, j \in batch.servedItems :
       order_items[i].updated_at < order_items[j].updated_at

\* C16: applying to an item the status it has succeeds and leaves the item
\* row, updated_at included, and the order rows as they were.
C16_SameStatusIsNoOp ==
  [][\A i \in DOMAIN order_items :
       UpdateOrderItemStatus(i, order_items[i].status)
       => /\ updateOrderItemStatus(order_items, i, order_items[i].status).result
               = "ok"
          /\ order_items'[i] = order_items[i]
          /\ orders' = orders]_vars

\* C17: an order becomes paid or closed only by the payment completion and
\* only when it was served.
C17_PaidOnlyByBillingFromServed ==
  [][\A o \in DOMAIN orders :
       ( /\ orders'[o].status \in StickyStatuses
         /\ orders'[o].status # orders[o].status )
       => (orders[o].status = "served" /\ StripeWebhook(o))]_vars

\* What never changes in an order item: all but status and updated_at.
FixedColumns ==
  {"order_id", "menu_item_id", "name", "qty", "price_cents", "created_at"}

\* C19: every step keeps every order item, under its identifier, with its
\* order, menu item, name, quantity and price (and time of creation).
C19_ItemIdentityImmutable ==
  [][\A i \in DOMAIN order_items :
       /\ i \in DOMAIN order_items'
       /\ \A c \in FixedColumns : order_items'[i][c] = order_items[i][c]]_vars

\* An item ordered twice over has been served at a later time than it was
\* created.
C19_Witness ==
  \E i \in DOMAIN order_items :
    /\ order_items[i].qty = 2
    /\ order_items[i].status = "served"
    /\ order_items[i].updated_at > order_items[i].created_at

----------------------------------------------------------------------------
(* Properties of the schema *)

\* C20: every stored order item has a quantity above 0 and a price of at
\* least 0, whatever was sent for insertion, and every menu item has a price
\* of at least 0.
C20_QuantityAndPriceBounds ==
  /\ \A i \in DOMAIN order_items :
       order_items[i].qty > 0 /\ order_items[i].price_cents >= 0
  /\ \A m \in DOMAIN menu_items : menu_items[m].price_cents >= 0
  /\ \A k \in 1..Len(menu_items_seed_price_cents) :
       menu_items_seed_price_cents[k] >= 0
  /\ (sql.table = "order_items" /\ sql.row.order_id \in DOMAIN orders) =>
       (sql.result = "ok" <=> (sql.row.qty > 0 /\ sql.row.price_cents >= 0))

\* An item of quantity 0 has just been refused for an order that has an item
\* of price 0.
C20_Witness ==
  /\ sql.table = "order_items"
  /\ sql.result = "check_violation"
  /\ sql.row.qty = 0
  /\ sql.row.price_cents >= 0
  /\ \E i \in ItemsOf(order_items, sql.row.order_id) :
       order_items[i].price_cents = 0

----------------------------------------------------------------------------
(* Properties of status updates that name no row *)

\* C18: a status update naming an order item, or an order, that does not
\* exist fails with NotFound and changes nothing.
C18_MissingRowIsNotFound ==
  [][\A c \in Clients :
       ( /\ InFlight(c)
         /\ calls'[c].pc = "done"
         /\ \/ calls[c].op = "item" /\ calls[c].id \notin DOMAIN order_items
            \/ calls[c].op = "order" /\ calls[c].id \notin DOMAIN orders )
       => /\ calls'[c].result = "NotFound"
          /\ orders' = orders
          /\ order_items' = order_items]_vars

----------------------------------------------------------------------------
(* Properties of the waits of fetchWithRetry *)

\* C25: the wait before retry k (k = 1, 2) is RETRY_DELAY_MS * 2^(k-1), that
\* is 1000 ms and then 2000 ms; each wait follows an attempt that failed with
\* a network error, a 429 or a 5xx and precedes the next attempt, so there is
\* none before the first attempt and none after the last one.
C25_BackoffDelays ==
  api.pc # "idle" =>
    /\ Len(api.delays) <= RETRY_ATTEMPTS
    /\ \A k \in 1..Len(api.delays) :
         /\ api.delays[k] = RETRY_DELAY_MS * (2 ^ (k - 1))
         /\ api.delays[k] = IF k = 1 THEN 1000 ELSE 2000
         /\ Retryable(api.tries[k])
    /\ api.pc = "attempt" => Len(api.delays) = Len(api.tries)
    /\ api.pc = "sleep" => Len(api.delays) = Len(api.tries)
    /\ api.pc \in {"returned", "threw"} =>
         Len(api.delays) = Len(api.tries) - 1

\* Three attempts failed and the call threw after waits of 1000 and 2000 ms.
C25_Witness ==
  /\ api.pc = "threw"
  /\ api.by = "fetchWithRetry"
  /\ Len(api.tries) = 3
  /\ api.delays = <<1000, 2000>>

----------------------------------------------------------------------------
(* Properties of the cart *)

\* C26: the cart holds at most one entry for a menu item id and every entry's
\* quantity is between 1 and 10; the minus button on a quantity of 1 removes
\* the entry, the plus button does nothing at 10 and the minus button nothing
\* at 0.
C26_CartEntries ==
  /\ [](\A j, k \in 1..Len(cart) : cart[j].itemId = cart[k].itemId => j = k)
  /\ [](\A k \in 1..Len(cart) : cart[k].quantity \in 1..MaxQty)
  /\ [][\A m \in DOMAIN menu_items :
          /\ (HandleDecrement(m) /\ QuantityOf(cart, m) = 1)
               => \A k \in 1..Len(cart') : cart'[k].itemId # m
          /\ QuantityOf(cart, m) = MaxQty => ~HandleIncrement(m, MaxQty + 1)
          /\ QuantityOf(cart, m) = 0 => ~HandleDecrement(m)]_vars

\* Two entries, the first one at the limit of 10 and the second one at 1.
C26_Witness ==
  /\ Len(cart) = 2
  /\ cart[1].quantity = MaxQty
  /\ cart[2].quantity = 1

----------------------------------------------------------------------------
(* Properties of the page's start *)

\* The URL lacks the table or the token, or validateToken has answered false.
NotAdmitted ==
  \/ tableId = NoParam
  \/ token = NoParam
  \/ (tokenCheck.pc = "done" /\ ~tokenCheck.result)

\* C27: getAvailableMenuItems is awaited, and a menu is held, only after
\* validateToken answered true for the table and the token of the URL, a token
\* row that had not expired at that time; the fetch is started by that answer
\* and by nothing else; when a parameter is missing or the answer is false the
\* page goes straight to the error screen with validatingToken and loading
\* false and stays there without a menu.
C27_MenuOnlyAfterValidToken ==
  /\ []((pagePc = "loadingMenu" \/ menuItems # {})
          => /\ tableId # NoParam /\ token # NoParam
             /\ tokenCheck.pc = "done"
             /\ tokenCheck.result
             /\ tokenCheck.tableId = tableId
             /\ tokenCheck.token = token
             /\ ~tokenCheck.lookupError
             /\ tableId \in DOMAIN table_tokens
             /\ table_tokens[tableId].token = token
             /\ table_tokens[tableId].expires_at > tokenCheck.at)
  /\ []((pagePc = "settled" /\ NotAdmitted)
          => /\ View = "error"
             /\ ~validatingToken
             /\ ~loading
             /\ menuItems = {})
  /\ [][/\ (pagePc' = "loadingMenu" /\ pagePc # "loadingMenu")
             => (pagePc = "validating" /\ tokenCheck'.result /\ tokenCheck'.at = now)
        /\ (pagePc # "settled" /\ pagePc' = "settled" /\ NotAdmitted')
             => pagePc \in {"unmounted", "validating"}
        /\ pagePc = "settled" => pagePc' = "settled"]_vars

\* The right token of table T1 was refused because it had expired by the time
\* of the check, and the page shows the error screen.
C27_Witness ==
  /\ pagePc = "settled"
  /\ tokenCheck.pc = "done"
  /\ ~tokenCheck.lookupError
  /\ ~tokenCheck.result
  /\ tableId \in DOMAIN table_tokens
  /\ table_tokens[tableId].token = token
  /\ View = "error"

----------------------------------------------------------------------------
(* Properties of Place Order *)

\* C28: one createOrder call, all its retries included, leaves at most one
\* order in the store.
C28_OneOrderPerSubmission ==
  Cardinality(callOrders) <= 1


\* The step in which createOrder returns: the gateway created the order and
\* its answer arrived.
CreateOrderReturns ==
  /\ \E failAt \in 0..MaxItems : FetchAttempt("delivered", failAt)
  /\ gw'.kind = "ok"

\* C29: submitting is true exactly while a createOrder call runs: it is set
\* by the Place Order that starts the call and reset by the step that ends
\* it, whether the call returned or threw; that step empties the cart and
\* sets the order-success state to the returned order id if createOrder
\* returned, and leaves both as they were and puts up an alert if it threw;
\* no other step sets the order-success state.
C29_SubmittingAndSuccess ==
  /\ [](submitting <=> fetch.pc # "idle")
  /\ [][/\ (~submitting /\ submitting')
             => (HandlePlaceOrder /\ fetch'.pc = "attempt" /\ fetch'.attempt = 0)
        /\ (fetch.pc # "idle" /\ fetch'.pc = "idle")
             => /\ ~submitting'
                /\ IF CreateOrderReturns
                   THEN /\ orderSuccess' = [orderId |-> gw'.oid, tableId |-> tableId]
                        /\ gw'.oid \in DOMAIN orders'
                        /\ cart' = <<>>
                        /\ alert' = alert
                   ELSE /\ orderSuccess' = orderSuccess
                        /\ cart' = cart
                        /\ alert' # NoAlert
        /\ (orderSuccess' # orderSuccess /\ orderSuccess' # NoSuccess)
             => CreateOrderReturns
        /\ CreateOrderReturns => (fetch'.pc = "idle" /\ cart' = <<>>)]_vars

\* An order went through after an earlier call had failed for good: the
\* success screen is up, the cart is empty and nothing is being submitted.
C29_Witness ==
  /\ orderSuccess # NoSuccess
  /\ orderSuccess.orderId \in DOMAIN orders
  /\ alert = "Failed after 3 attempts"
  /\ cart = <<>>
  /\ ~submitting
  /\ fetch = FetchIdle

----------------------------------------------------------------------------
(* Properties of getOrderByTable *)

ActiveOrders(tid) ==
  {o \in DOMAIN orders :
     orders[o].table_id = tid /\ orders[o].status \in LookupStatuses}

\* C30: getOrderByTable returns the most recently created order of the table
\* among those that are pending, in_kitchen, preparing, ready or served, and
\* null when the table has none, however many orders the table has.
C30_LatestActiveOrder ==
  [][\A t \in DOMAIN table_tokens :
       GetOrderByTable(t) =>
         /\ lookup'.pc = "returned"
         /\ IF ActiveOrders(t) = {}
            THEN lookup'.data = 0
            ELSE /\ lookup'.data \in ActiveOrders(t)
                 /\ \A p \in ActiveOrders(t) :
                      orders[p].created_at <= orders[lookup'.data].created_at]_vars

----------------------------------------------------------------------------
(* Properties of the change notifier *)

SameRow(e, f) == e.table = f.table /\ e.id = f.id

StoreChanges == orders' # orders \/ order_items' # order_items

\* C21: the events an observer is handed for one row come in the order in
\* which the changes of that row were committed, which is the order of their
\* numbers; what still waits for the observer was committed later than what
\* it has been handed for that row.
C21_SameRowInCommitOrder ==
  \A o \in Observers :
    LET received == observers[o].received
        queue == observers[o].queue
    IN /\ \A j, k \in 1..Len(received) :
            (j < k /\ SameRow(received[j], received[k]))
              => received[j].n < received[k].n
       /\ \A j \in 1..Len(received), k \in 1..Len(queue) :
            SameRow(received[j], queue[k]) => received[j].n < queue[k].n

\* A dashboard has been handed the insert of an order item and then its
\* update, while the other one, subscribed as well, has been handed nothing.
C21_Witness ==
  \E o, p \in Observers :
    /\ \E j, k \in 1..Len(observers[o].received) :
         /\ j < k
         /\ SameRow(observers[o].received[j], observers[o].received[k])
         /\ observers[o].received[j].table = "order_items"
         /\ observers[o].received[j].kind = "INSERT"
         /\ observers[o].received[k].kind = "UPDATE"
    /\ observers[p].pc = "subscribed"
    /\ observers[p].received = <<>>
    /\ observers[p].queue # <<>>


\* The event that tells o of row i of a table as the step has left it stands
\* in what the step has added to o's queue.
Queued(o, table, i, row) ==
  \E k \in (Len(observers[o].queue) + 1)..Len(observers'[o].queue) :
    /\ observers'[o].queue[k].table = table
    /\ observers'[o].queue[k].id = i
    /\ observers'[o].queue[k].new = row

Waiting(o, n) ==
  \E k \in 1..Len(observers[o].queue) : observers[o].queue[k].n = n

Handed(o, n) ==
  \E k \in 1..Len(observers[o].received) : observers[o].received[k].n = n

\* C22: a step that inserts or rewrites a row of orders or order_items, the
\* insert of a new order among them, puts an event with the new row values
\* into the queue of every observer that is subscribed; and, deliveries being
\* fair, every event in an observer's queue is handed to it unless it
\* unsubscribes.
C22_EveryChangeDelivered ==
  /\ [][\A o \in Observers :
          (observers[o].pc = "subscribed" /\ observers'[o].pc = "subscribed")
          => /\ \A i \in DOMAIN orders' :
                  (i \notin DOMAIN orders \/ orders'[i] # orders[i])
                    => Queued(o, "orders", <<i>>, orders'[i])
             /\ \A i \in DOMAIN order_items' :
                  (i \notin DOMAIN order_items \/ order_items'[i] # order_items[i])
                    => Queued(o, "order_items", i, order_items'[i])]_vars
  /\ \A o \in Observers : \A n \in 1..(MaxEvents + MaxItems) :
       Waiting(o, n) ~> (Handed(o, n) \/ observers[o].pc # "subscribed")

\* Both dashboards have been handed the insert of an order, and one of them
\* an update after it.
C22_Witness ==
  /\ \A o \in Observers :
       \E k \in 1..Len(observers[o].received) :
         /\ observers[o].received[k].table = "orders"
         /\ observers[o].received[k].kind = "INSERT"
         /\ observers[o].received[k].new.status = "pending"
  /\ \E o \in Observers : \E k \in 1..Len(observers[o].received) :
       observers[o].received[k].kind = "UPDATE"


C24_WritersNeverWait ==
  /\ [](\A i \in OrderItemIds, s \in NotifyStatusInputs :
          ENABLED UpdateOrderItemStatus(i, s))
  /\ [](\A o \in OrderIds, s \in NotifyStatusInputs :
          ENABLED UpdateOrderStatus(o, s))
  /\ [](Cardinality(DOMAIN orders) < MaxFloorOrders
          => \A req \in FloorRequests : ENABLED SubmitFloor(req, 0))
  /\ [][StoreChanges =>
          \A o \in Observers :
            /\ observers'[o].received = observers[o].received
            /\ Len(observers'[o].queue) >= Len(observers[o].queue)
            /\ SubSeq(observers'[o].queue, 1, Len(observers[o].queue))
                 = observers[o].queue
            /\ observers'[o].pc = observers[o].pc]_vars

\* A dashboard that subscribed before the order was created has been handed
\* nothing; the insert and a later update are waiting for it, committed all
\* the same.
C24_Witness ==
  \E o \in Observers :
    /\ observers[o].pc = "subscribed"
    /\ observers[o].received = <<>>
    /\ \E j, k \in 1..Len(observers[o].queue) :
         /\ j < k
         /\ observers[o].queue[j].kind = "INSERT"
         /\ observers[o].queue[k].kind = "UPDATE"
         /\ observers[o].queue[k].table = "order_items"
         /\ order_items[observers[o].queue[k].id].status = "preparing"

============================================================================
